---- MODULE Spec2Model ----
(***************************************************************************)
(* Model of scripts/scropt.py: the command-line driver that parses the     *)
(* arguments of one home range optimization run, checks them, constructs   *)
(* an SCRoptProblem.Problem or SCRoptProblem.ParetoProblem, builds the     *)
(* runtimeparams dictionary and calls problem.runcplex(runtimeparams).     *)
(*                                                                         *)
(* Python values are modelled as follows.                                  *)
(*   str    a sequence of one-character strings: "rd" is <<"r","d">>, so   *)
(*          that +, ==, `in` on a string and `in` on a tuple are computed  *)
(*          as Python computes them;                                       *)
(*   float  a record [k |-> "fin", c |-> n] for the decimal n/100 given on *)
(*          the command line, or [k |-> "nan", c |-> 0] for float("nan"),  *)
(*          which argparse's type=float accepts;                           *)
(*   None   <<"None">> where a str is expected, [k |-> "None", c |-> 0]    *)
(*          where a float is expected.                                     *)
(* The script is Python 2 (`print (...) % (...)` is a print statement      *)
(* applied to a formatted string), and is modelled as such.                *)
(***************************************************************************)
EXTENDS Integers, Sequences, FiniteSets

(***************************************************************************)
(* String literals of the source.                                          *)
(***************************************************************************)
RD ==
  <<"r","d">>

PC ==
  <<"p","c">>

DWC ==
  <<"d","w","c">>

CPLEX ==
  <<"c","p","l","e","x">>

CPLEXPATH ==
  <<"/","o","p","t","/","i","b","m","/","I","L","O","G","/","C","P","L","E",
    "X","_","S","t","u","d","i","o","1","2","6","/","c","p","l","e","x","/",
    "b","i","n","/","x","8","6","-","6","4","_","l","i","n","u","x","/","c",
    "p","l","e","x">>

LOGFILEDIR ==
  <<"/","h","o","m","e","/","f","s","0","1","/","a","g","2","3","7","3","/",
    "L","a","n","d","s","c","a","p","e","C","o","n","n","e","c","t","i","v",
    "i","t","y","/","S","C","R","O","P","T","/","o","u","t","p","u","t","/",
    "l","o","g","f","i","l","e","s","/">>

RESULTDIR_PARETO ==
  <<"/","h","o","m","e","/","f","s","0","1","/","a","g","2","3","7","3","/",
    "L","a","n","d","s","c","a","p","e","C","o","n","n","e","c","t","i","v",
    "i","t","y","/","S","C","R","O","P","T","/","o","u","t","p","u","t","/",
    "r","e","s","u","l","t","s","/","p","a","r","e","t","o","/">>

RESULTDIR_BUDGET ==
  <<"/","h","o","m","e","/","f","s","0","1","/","a","g","2","3","7","3","/",
    "L","a","n","d","s","c","a","p","e","C","o","n","n","e","c","t","i","v",
    "i","t","y","/","S","C","R","O","P","T","/","o","u","t","p","u","t","/",
    "r","e","s","u","l","t","s","/","b","u","d","g","e","t","/">>

WORKDIR ==
  <<"/","h","o","m","e","/","f","s","0","1","/","a","g","2","3","7","3","/",
    "L","a","n","d","s","c","a","p","e","C","o","n","n","e","c","t","i","v",
    "i","t","y","/","S","C","R","O","P","T","/","o","u","t","p","u","t","/",
    "l","p","a","n","d","s","o","l","f","i","l","e","s","/">>

US ==
  <<"_">>

PARETO_INFIX ==
  <<"_","p","a","r","e","t","o","_">>

DOT_LOG ==
  <<".","l","o","g">>

DOT_TXT ==
  <<".","t","x","t">>

(***************************************************************************)
(* Python semantics used by the script.                                    *)
(***************************************************************************)
\* None, for an optional str argument (argparse's default for -secondary).
NoneStr ==
  <<"None">>

\* None, for an optional float argument (argparse's default for -sconstrval).
NoneFloat ==
  [k |-> "None", c |-> 0]

\* float("nan").
NaN ==
  [k |-> "nan", c |-> 0]

\* The float parsed from a decimal with two fraction digits: n / 100.
Fin(n) ==
  [k |-> "fin", c |-> n]

\* x > 1 on floats: every comparison with nan is False.
GreaterThanOne(x) ==
  x.k = "fin" /\ x.c > 100

\* x <= 1 on floats.
AtMostOne(x) ==
  x.k = "fin" /\ x.c <= 100

\* x > 0 on floats.
Positive(x) ==
  x.k = "fin" /\ x.c > 0

\* bool(s) of a str or None: None and "" are false.
TruthyStr(s) ==
  s # NoneStr /\ s # <<>>

\* bool(x) of a float or None: None and 0.0 are false, nan is true.
TruthyFloat(x) ==
  x.k # "None" /\ ~(x.k = "fin" /\ x.c = 0)

\* a in b for two strings: a occurs in b as a contiguous substring.
IsSubstring(a, b) ==
  \E i \in 0..(Len(b) - Len(a)) : SubSeq(b, i + 1, i + Len(a)) = a

Digit(d) ==
  <<"0", "1", "2", "3", "4", "5", "6", "7", "8", "9">>[d + 1]

RECURSIVE NatStr(_)
\* The decimal digits of a natural number.
NatStr(n) ==
  IF n < 10 THEN <<Digit(n)>> ELSE NatStr(n \div 10) \o <<Digit(n % 10)>>

\* Str with the float rendered as str(int(x)) would: no "." and fraction.
Str_AsInteger(x) ==
  IF x.k = "nan" THEN <<"n", "a", "n">>
  ELSE LET a == IF x.c < 0 THEN 0 - x.c ELSE x.c
       IN  (IF x.c < 0 THEN <<"-">> ELSE <<>>) \o NatStr(a \div 100)

\* str(x) of a float: "nan", or sign, integer part, "." and the fraction
\* digits without trailing zeros, at least one ("500.0", "0.95", "-250.0").
\* Exact for the decimals below 10^10 in magnitude (12 significant digits).
Str(x) ==
  IF x.k = "nan" THEN <<"n", "a", "n">>
  ELSE LET a == IF x.c < 0 THEN 0 - x.c ELSE x.c
           f == a % 100
       IN  (IF x.c < 0 THEN <<"-">> ELSE <<>>)
           \o NatStr(a \div 100) \o <<".">>
           \o (IF f % 10 = 0 THEN <<Digit(f \div 10)>>
               ELSE <<Digit(f \div 10), Digit(f % 10)>>)

(***************************************************************************)
(* Bounds of the model, and the command lines it runs the script on.       *)
(***************************************************************************)
MaxBudgetStep ==
  2

MaxHrpropStep ==
  3

MaxSconstrStep ==
  1

MaxRuns ==
  2

LSX ==
  <<"l", "s", "X">>

\* A landscape name that itself looks like the stem of a pareto log file.
LSX_STEM ==
  <<"l", "s", "X", "_", "r", "d", "_", "2", "5", "0", ".", "0",
    "_", "p", "a", "r", "e", "t", "o">>

\* -objective: the three objectives and a string that is none of them.
ObjectiveArgs ==
  {RD, PC, DWC, <<"x", "y">>}

\* -budget: -250.0, 0.0, 250.0, 500.0, ...
BudgetArgs ==
  {Fin(25000 * i) : i \in (0 - 1)..MaxBudgetStep}

\* -hrprop: 0.95, 1.0, 1.5, ... and nan.
HrpropArgs ==
  {Fin(95), NaN} \cup {Fin(50 * i) : i \in 2..MaxHrpropStep}

LandscapeArgs ==
  {LSX, LSX_STEM}

\* -method: "cplex", substrings of it, and a string that is not one.
MethodArgs ==
  {CPLEX, <<"c">>, <<"p", "l", "e", "x">>, <<>>, <<"g", "l", "p", "k">>}

\* -secondary: not given, given empty, the objectives, and another string.
SecondaryArgs ==
  {NoneStr, <<>>, RD, PC, DWC, <<"x", "y">>}

\* -sconstrval: not given, 0.0, 50.0, ...
SconstrvalArgs ==
  {NoneFloat} \cup {Fin(5000 * i) : i \in 0..MaxSconstrStep}

(***************************************************************************)
(* State.                                                                  *)
(***************************************************************************)
VARIABLES
  objective, budget, hrprop, landscape, method, secondary, sconstrval,
  pc,             \* the position of main in the script
  error,          \* the message of the ValueError raised, "" if none
  printed,        \* which "Arguments parsed" line was printed
  problem,        \* the SCRoptProblem object constructed, NoProblem if none
  nconstructed,   \* how many SCRoptProblem objects were constructed
  runtimeparams,  \* the runtimeparams dictionary
  runcalls,       \* how often runcplex was invoked
  solved,         \* the object runcplex was invoked on
  passed,         \* the dictionary runcplex was invoked with
  runs,           \* how many times the script has been started
  prev            \* the problem and files of the last earlier run that solved

arguments ==
  <<objective, budget, hrprop, landscape, method, secondary, sconstrval>>

vars ==
  <<objective, budget, hrprop, landscape, method, secondary, sconstrval,
    pc, error, printed, problem, nconstructed, runtimeparams, runcalls,
    solved, passed, runs, prev>>

NoProblem ==
  [variant |-> "None", args |-> <<>>]

NoParams ==
  [key \in {} |-> 0]

NoRun ==
  [variant |-> "None", logfilename |-> <<>>, resultfilename |-> <<>>]

\* The local state of main when the script starts.
Fresh ==
  /\ pc = "check_objective"
  /\ error = ""
  /\ printed = ""
  /\ problem = NoProblem
  /\ nconstructed = 0
  /\ runtimeparams = NoParams
  /\ runcalls = 0
  /\ solved = NoProblem
  /\ passed = NoParams

\* parser.parse_args() and the seven assignments from it: args is what the
\* command line gives for the seven arguments, in the order of the parser.
ParseArgs(args) ==
  /\ objective = args[1]
  /\ budget = args[2]
  /\ hrprop = args[3]
  /\ landscape = args[4]
  /\ method = args[5]
  /\ secondary = args[6]
  /\ sconstrval = args[7]

\* The command lines of a single run.
CommandLines ==
  ObjectiveArgs \X BudgetArgs \X HrpropArgs \X LandscapeArgs \X MethodArgs
    \X SecondaryArgs \X SconstrvalArgs

Init ==
  /\ \E args \in CommandLines : ParseArgs(args)
  /\ Fresh
  /\ runs = 1
  /\ prev = NoRun

(***************************************************************************)
(* The checks of the arguments.                                            *)
(***************************************************************************)
\* objective not in ("rd", "pc", "dwc"): membership in a tuple.
ObjectiveRejected ==
  objective \notin {RD, PC, DWC}

\* HrpropRejected with the test made on the wrong argument: budget > 1.
HrpropRejected_TestsBudget ==
  GreaterThanOne(budget)

HrpropRejected ==
  GreaterThanOne(hrprop)

\* method not in ("cplex"): ("cplex") is the string "cplex", not a tuple,
\* so `in` is the substring test.
MethodRejected ==
  ~IsSubstring(method, CPLEX)

\* The if/elif/elif chain under `if secondary:`; "" when none raises.
SecondaryError ==
  IF secondary \notin {RD, PC, DWC}
  THEN "Invalid secondary optimization objective requested. Please choose from: rd, pc, dwc."
  ELSE IF secondary = objective
  THEN "Primary and secondary optimization objectives should not be the same."
  ELSE IF ~TruthyFloat(sconstrval)
  THEN "Secondary optimization objective requires a constraint value."
  ELSE ""

Raise(msg) ==
  /\ pc' = "raised"
  /\ error' = msg

CheckObjective ==
  /\ pc = "check_objective"
  /\ IF ObjectiveRejected
     THEN Raise("Invalid optimization objective requested. Please choose from: rd, pc, dwc.")
     ELSE pc' = "check_hrprop" /\ UNCHANGED error
  /\ UNCHANGED <<arguments, printed, problem, nconstructed, runtimeparams,
                 runcalls, solved, passed, runs, prev>>

CheckHrprop ==
  /\ pc = "check_hrprop"
  /\ IF HrpropRejected
     THEN Raise("Only hrprop <= 1 has been implemented.")
     ELSE pc' = "check_method" /\ UNCHANGED error
  /\ UNCHANGED <<arguments, printed, problem, nconstructed, runtimeparams,
                 runcalls, solved, passed, runs, prev>>

CheckMethod ==
  /\ pc = "check_method"
  /\ IF MethodRejected
     THEN Raise("Only cplex solve method has been implemented.")
     ELSE pc' = "check_secondary" /\ UNCHANGED error
  /\ UNCHANGED <<arguments, printed, problem, nconstructed, runtimeparams,
                 runcalls, solved, passed, runs, prev>>

\* `if secondary:` with its checks, and the print of either branch. The
\* print statement formats its line with % and cannot fail: every value is
\* formatted with %s.
CheckSecondary ==
  /\ pc = "check_secondary"
  /\ IF TruthyStr(secondary)
     THEN IF SecondaryError # ""
          THEN Raise(SecondaryError) /\ UNCHANGED printed
          ELSE /\ printed' = "Arguments parsed: 7 fields"
               /\ pc' = "create"
               /\ UNCHANGED error
     ELSE /\ printed' = "Arguments parsed: 5 fields"
          /\ pc' = "create"
          /\ UNCHANGED error
  /\ UNCHANGED <<arguments, problem, nconstructed, runtimeparams,
                 runcalls, solved, passed, runs, prev>>

(***************************************************************************)
(* Creating the problem and its runtimeparams.                             *)
(***************************************************************************)
ParetoProblem ==
  [variant |-> "ParetoProblem",
   args |-> <<objective, budget, hrprop, landscape, method, secondary,
              sconstrval>>]

Problem ==
  [variant |-> "Problem",
   args |-> <<objective, budget, hrprop, landscape, method>>]

\* ParetoRuntimeParams with the result directory of the standard branch.
ParetoRuntimeParams_BudgetDir ==
  [cplexpath |-> CPLEXPATH,
   timelimit |-> 432000,
   randomseed |-> 15,
   workmem |-> 20000,
   logfiledir |-> LOGFILEDIR,
   logfilename |-> LOGFILEDIR \o landscape \o US \o objective \o US
                   \o Str(budget) \o PARETO_INFIX \o secondary \o US
                   \o Str(sconstrval) \o DOT_LOG,
   resultfilename |-> RESULTDIR_BUDGET \o landscape \o US \o objective \o US
                      \o Str(budget) \o US \o secondary \o US
                      \o Str(sconstrval) \o DOT_TXT,
   workdir |-> WORKDIR]

ParetoRuntimeParams ==
  [cplexpath |-> CPLEXPATH,
   timelimit |-> 432000,
   randomseed |-> 15,
   workmem |-> 20000,
   logfiledir |-> LOGFILEDIR,
   logfilename |-> LOGFILEDIR \o landscape \o US \o objective \o US
                   \o Str(budget) \o PARETO_INFIX \o secondary \o US
                   \o Str(sconstrval) \o DOT_LOG,
   resultfilename |-> RESULTDIR_PARETO \o landscape \o US \o objective \o US
                      \o Str(budget) \o US \o secondary \o US
                      \o Str(sconstrval) \o DOT_TXT,
   workdir |-> WORKDIR]

\* StandardRuntimeParams with the workdir entry left out.
StandardRuntimeParams_NoWorkdir ==
  [cplexpath |-> CPLEXPATH,
   timelimit |-> 432000,
   randomseed |-> 15,
   workmem |-> 20000,
   logfiledir |-> LOGFILEDIR,
   logfilename |-> LOGFILEDIR \o landscape \o US \o objective \o US
                   \o Str(budget) \o DOT_LOG,
   resultfilename |-> RESULTDIR_BUDGET \o landscape \o US \o objective \o US
                      \o Str(budget) \o DOT_TXT]

StandardRuntimeParams ==
  [cplexpath |-> CPLEXPATH,
   timelimit |-> 432000,
   randomseed |-> 15,
   workmem |-> 20000,
   logfiledir |-> LOGFILEDIR,
   logfilename |-> LOGFILEDIR \o landscape \o US \o objective \o US
                   \o Str(budget) \o DOT_LOG,
   resultfilename |-> RESULTDIR_BUDGET \o landscape \o US \o objective \o US
                      \o Str(budget) \o DOT_TXT,
   workdir |-> WORKDIR]

\* ParetoRequested with a given sconstrval also selecting the pareto problem.
ParetoRequested_BySconstrval ==
  TruthyStr(secondary) \/ TruthyFloat(sconstrval)

\* `if secondary:` of the creation: which of the two problems is created.
ParetoRequested ==
  TruthyStr(secondary)

CreateProblem ==
  /\ pc = "create"
  /\ IF ParetoRequested
     THEN problem' = ParetoProblem /\ runtimeparams' = ParetoRuntimeParams
     ELSE problem' = Problem /\ runtimeparams' = StandardRuntimeParams
  /\ nconstructed' = nconstructed + 1
  /\ pc' = "check_runtimeparams"
  /\ UNCHANGED <<arguments, error, printed, runcalls, solved, passed, runs,
                 prev>>

RequiredKeys ==
  {"cplexpath", "timelimit", "randomseed", "workmem", "logfiledir",
   "logfilename", "resultfilename", "workdir"}

CheckRuntimeParams ==
  /\ pc = "check_runtimeparams"
  /\ IF ~(\A key \in RequiredKeys : key \in DOMAIN runtimeparams)
     THEN Raise("One or more runtimeparams missing.")
     ELSE pc' = "runcplex" /\ UNCHANGED error
  /\ UNCHANGED <<arguments, printed, problem, nconstructed, runtimeparams,
                 runcalls, solved, passed, runs, prev>>

\* problem.runcplex(runtimeparams): the one call into SCRoptProblem, whose
\* outcome main does not inspect.
RunCplex ==
  /\ pc = "runcplex"
  /\ runcalls' = runcalls + 1
  /\ solved' = problem
  /\ passed' = runtimeparams
  /\ pc' = "done"
  /\ UNCHANGED <<arguments, error, printed, problem, nconstructed,
                 runtimeparams, runs, prev>>

Next ==
  \/ CheckObjective
  \/ CheckHrprop
  \/ CheckMethod
  \/ CheckSecondary
  \/ CreateProblem
  \/ CheckRuntimeParams
  \/ RunCplex

Spec ==
  Init /\ [][Next]_vars

(***************************************************************************)
(* Several runs of the script, one after the other: each is a process of   *)
(* its own, and what remains of a run are the files it named.              *)
(***************************************************************************)
RunsObjectiveArgs ==
  {RD, PC}

RunsBudgetArgs ==
  {Fin(25000)}

RunsHrpropArgs ==
  {Fin(95), Fin(150)}

RunsMethodArgs ==
  {CPLEX}

RunsSecondaryArgs ==
  {NoneStr, PC}

RunsSconstrvalArgs ==
  {NoneFloat, Fin(25000)}

\* The command lines of each of several runs.
RunsCommandLines ==
  RunsObjectiveArgs \X RunsBudgetArgs \X RunsHrpropArgs \X LandscapeArgs
    \X RunsMethodArgs \X RunsSecondaryArgs \X RunsSconstrvalArgs

InitRuns ==
  /\ \E args \in RunsCommandLines : ParseArgs(args)
  /\ Fresh
  /\ runs = 1
  /\ prev = NoRun

\* The script is started again once the run before it has ended.
Rerun ==
  /\ pc \in {"done", "raised"}
  /\ runs < MaxRuns
  /\ runs' = runs + 1
  /\ prev' = IF pc = "done"
             THEN [variant |-> solved.variant,
                   logfilename |-> passed.logfilename,
                   resultfilename |-> passed.resultfilename]
             ELSE prev
  /\ \E args \in RunsCommandLines :
       /\ objective' = args[1]
       /\ budget' = args[2]
       /\ hrprop' = args[3]
       /\ landscape' = args[4]
       /\ method' = args[5]
       /\ secondary' = args[6]
       /\ sconstrval' = args[7]
  /\ pc' = "check_objective"
  /\ error' = ""
  /\ printed' = ""
  /\ problem' = NoProblem
  /\ nconstructed' = 0
  /\ runtimeparams' = NoParams
  /\ runcalls' = 0
  /\ solved' = NoProblem
  /\ passed' = NoParams

NextRuns ==
  \/ CheckObjective
  \/ CheckHrprop
  \/ CheckMethod
  \/ CheckSecondary
  \/ CreateProblem
  \/ CheckRuntimeParams
  \/ RunCplex
  \/ Rerun

SpecRuns ==
  InitRuns /\ [][NextRuns]_vars

(***************************************************************************)
(* What the specification calls a valid request.                           *)
(***************************************************************************)
OBJECTIVES ==
  {RD, PC, DWC}

ObjectiveValid ==
  objective \in OBJECTIVES

HrpropValid ==
  AtMostOne(hrprop)

MethodValid ==
  method = CPLEX

\* -secondary was given on the command line, with whatever string.
SecondaryGiven ==
  secondary # NoneStr

\* A given secondary that the specification says is rejected.
SecondaryInvalid ==
  /\ SecondaryGiven
  /\ \/ secondary \notin OBJECTIVES
     \/ secondary = objective
     \/ sconstrval = NoneFloat

\* No secondary is given, or one that the specification accepts: one of rd,
\* pc, dwc, other than objective, with an sconstrval present and truthy.
SecondaryValid ==
  SecondaryGiven
  => /\ secondary \in OBJECTIVES
     /\ secondary # objective
     /\ TruthyFloat(sconstrval)

\* The run ended, by a raise or by returning from runcplex.
Ended ==
  pc \in {"done", "raised"}

\* The run raised a ValueError without constructing or solving anything.
NotDispatched ==
  /\ nconstructed = 0
  /\ runcalls = 0
  /\ problem = NoProblem
  /\ Ended => pc = "raised"

(***************************************************************************)
(* C1.  Every method other than exactly "cplex" (the empty string and the  *)
(* proper substrings of "cplex" included), all other fields valid, raises  *)
(* the 'Only cplex solve method has been implemented' ValueError and never *)
(* reaches problem construction; whenever runcplex is invoked, method is   *)
(* "cplex".                                                                *)
(***************************************************************************)
C1_OnlyCplexIsSolved ==
  /\ runcalls > 0 => method = CPLEX
  /\ (/\ method # CPLEX
      /\ ObjectiveValid
      /\ HrpropValid
      /\ SecondaryValid)
     => /\ NotDispatched
        /\ Ended => error = "Only cplex solve method has been implemented."

(***************************************************************************)
(* C2.  A request that gives a secondary (any string, the empty one        *)
(* included), with objective, hrprop and method valid, is rejected when    *)
(* secondary is not one of rd, pc, dwc, when it equals objective, and when *)
(* sconstrval is absent: no such request reaches the construction of       *)
(* Problem or ParetoProblem.                                               *)
(***************************************************************************)
C2_GivenSecondaryIsChecked ==
  (ObjectiveValid /\ HrpropValid /\ MethodValid /\ SecondaryInvalid)
  => NotDispatched

(***************************************************************************)
(* C3.  Whenever a validation check fails (objective not in rd, pc, dwc;   *)
(* hrprop > 1; method not "cplex"; secondary invalid or equal to           *)
(* objective; sconstrval missing), the ValueError is raised before a       *)
(* Problem or ParetoProblem is constructed, and runcplex is never invoked. *)
(***************************************************************************)
C3_ValidationPrecedesSolve ==
  (\/ ~ObjectiveValid
   \/ GreaterThanOne(hrprop)
   \/ ~MethodValid
   \/ SecondaryInvalid)
  => NotDispatched

(***************************************************************************)
(* C4.  Every request with hrprop > 1 raises a ValueError and is not       *)
(* dispatched, whatever the other fields; and every request that reaches   *)
(* runcplex has hrprop <= 1.                                               *)
(***************************************************************************)
C4_HrpropAtMostOneIsSolved ==
  /\ GreaterThanOne(hrprop) => NotDispatched
  /\ runcalls > 0 => AtMostOne(hrprop)

(***************************************************************************)
(* C5.  When secondary is absent and the other fields are valid,           *)
(* sconstrval is ignored: whatever sconstrval is, no error is raised, the  *)
(* standard Problem(objective, budget, hrprop, landscape, method) is       *)
(* constructed, never a ParetoProblem, and the runtimeparams passed to     *)
(* runcplex is the same dictionary for every sconstrval: the one below,    *)
(* in which sconstrval does not occur.                                     *)
(***************************************************************************)
C5_SconstrvalIgnored ==
  (secondary = NoneStr /\ ObjectiveValid /\ HrpropValid /\ MethodValid)
  => /\ pc # "raised"
     /\ error = ""
     /\ problem.variant # "ParetoProblem"
     /\ nconstructed > 0
        => problem = [variant |-> "Problem",
                      args |-> <<objective, budget, hrprop, landscape,
                                 method>>]
     /\ runcalls > 0
        => /\ solved = problem
           /\ passed =
                [cplexpath |-> CPLEXPATH,
                 timelimit |-> 432000,
                 randomseed |-> 15,
                 workmem |-> 20000,
                 logfiledir |-> LOGFILEDIR,
                 logfilename |-> LOGFILEDIR \o landscape \o US \o objective
                                 \o US \o Str(budget) \o DOT_LOG,
                 resultfilename |-> RESULTDIR_BUDGET \o landscape \o US
                                    \o objective \o US \o Str(budget)
                                    \o DOT_TXT,
                 workdir |-> WORKDIR]

\* A standard run that was given an sconstrval has called runcplex.
C5_Witness ==
  /\ pc = "done"
  /\ secondary = NoneStr
  /\ sconstrval = Fin(5000)
  /\ ObjectiveValid /\ HrpropValid /\ MethodValid
  /\ solved.variant = "Problem"

(***************************************************************************)
(* C6.  For every accepted request with a secondary objective, the problem *)
(* constructed is ParetoProblem(objective, budget, hrprop, landscape,      *)
(* method, secondary, sconstrval), and the logfilename and resultfilename  *)
(* passed to runcplex differ from those of the standard branch for the     *)
(* same landscape, objective and budget, and each contains "pareto", the   *)
(* secondary objective and str(sconstrval).                                *)
(***************************************************************************)
C6_ParetoVariantAndNames ==
  (TruthyStr(secondary) /\ nconstructed > 0)
  => /\ problem = [variant |-> "ParetoProblem",
                   args |-> <<objective, budget, hrprop, landscape, method,
                              secondary, sconstrval>>]
     /\ runcalls > 0
        => /\ solved = problem
           /\ passed.logfilename # StandardRuntimeParams.logfilename
           /\ passed.resultfilename # StandardRuntimeParams.resultfilename
           /\ \A name \in {passed.logfilename, passed.resultfilename} :
                /\ IsSubstring(<<"p", "a", "r", "e", "t", "o">>, name)
                /\ IsSubstring(secondary, name)
                /\ IsSubstring(Str(sconstrval), name)

\* The request objective=rd, secondary=pc, sconstrval=50.0 has been solved.
C6_Witness ==
  /\ pc = "done"
  /\ objective = RD
  /\ secondary = PC
  /\ sconstrval = Fin(5000)
  /\ landscape = LSX
  /\ solved.variant = "ParetoProblem"

\* The dictionary d has exactly the eight keys, none with an empty value.
C7_EightNonEmpty(d) ==
  /\ DOMAIN d = {"cplexpath", "timelimit", "randomseed", "workmem",
                 "logfiledir", "logfilename", "resultfilename", "workdir"}
  /\ \A key \in {"cplexpath", "logfiledir", "logfilename",
                 "resultfilename", "workdir"} : Len(d[key]) > 0
  /\ \A key \in {"timelimit", "randomseed", "workmem"} : d[key] > 0

(***************************************************************************)
(* C7.  In every run that passes the checks of the arguments, on either    *)
(* branch, runtimeparams has exactly the eight keys cplexpath, timelimit,  *)
(* randomseed, workmem, logfiledir, logfilename, resultfilename, workdir,  *)
(* each with a non-empty value, and the 'One or more runtimeparams         *)
(* missing' ValueError is never raised.                                    *)
(***************************************************************************)
C7_RuntimeParamsComplete ==
  /\ error # "One or more runtimeparams missing."
  /\ pc = "raised" => nconstructed = 0
  /\ nconstructed > 0 => C7_EightNonEmpty(runtimeparams)
  /\ runcalls > 0 => C7_EightNonEmpty(passed)

\* A pareto run has called runcplex with its dictionary.
C7_Witness ==
  /\ pc = "done"
  /\ runcalls = 1
  /\ solved.variant = "ParetoProblem"
  /\ passed = runtimeparams
  /\ passed # NoParams

(***************************************************************************)
(* C8.  A request that passes all the checks with secondary absent raises  *)
(* no exception in main, constructs exactly one standard Problem, and then *)
(* invokes runcplex exactly once on that object, construction first, with  *)
(* resultfilename the results/budget/ directory followed by                *)
(* landscape + '_' + objective + '_' + str(budget) + '.txt'; for           *)
(* (dwc, 500, 0.95, lsX, cplex) it ends in lsX_dwc_500.0.txt.              *)
(***************************************************************************)
C8_StandardRunSolvesOnce ==
  (secondary = NoneStr
     /\ pc \in {"create", "check_runtimeparams", "runcplex", "done"})
  => /\ error = ""
     /\ ENABLED Next <=> pc # "done"
     /\ nconstructed = (IF pc = "create" THEN 0 ELSE 1)
     /\ runcalls = (IF pc = "done" THEN 1 ELSE 0)
     /\ nconstructed = 1
        => problem = [variant |-> "Problem",
                      args |-> <<objective, budget, hrprop, landscape,
                                 method>>]
     /\ runcalls = 1
        => /\ solved = problem
           /\ passed.resultfilename =
                RESULTDIR_BUDGET \o landscape \o <<"_">> \o objective
                  \o <<"_">> \o Str(budget) \o <<".", "t", "x", "t">>
           /\ (objective = DWC /\ budget = Fin(50000) /\ landscape = LSX)
              => LET name == passed.resultfilename
                 IN  SubSeq(name, Len(name) - 16, Len(name))
                       = <<"l", "s", "X", "_", "d", "w", "c", "_",
                           "5", "0", "0", ".", "0", ".", "t", "x", "t">>

\* The request (dwc, 500, 0.95, lsX, cplex) has been solved.
C8_Witness ==
  /\ pc = "done"
  /\ objective = DWC
  /\ budget = Fin(50000)
  /\ hrprop = Fin(95)
  /\ landscape = LSX
  /\ method = CPLEX
  /\ secondary = NoneStr
  /\ runcalls = 1

(***************************************************************************)
(* C9.  Every request that reaches problem construction and runcplex has a *)
(* positive budget: a request with budget <= 0, all other fields valid, is *)
(* never dispatched to Problem or ParetoProblem.                           *)
(***************************************************************************)
C9_DispatchedBudgetPositive ==
  (nconstructed > 0 \/ runcalls > 0) => Positive(budget)

(***************************************************************************)
(* C9, as amended.  main does not check budget: a request whose other      *)
(* fields are valid is dispatched to Problem or ParetoProblem whatever its *)
(* budget, zero and negative budgets included, and the problem is          *)
(* constructed with the budget of the command line.                        *)
(***************************************************************************)
C9_BudgetNotChecked ==
  (/\ ObjectiveValid
   /\ HrpropValid
   /\ MethodValid
   /\ SecondaryValid)
  => /\ pc # "raised"
     /\ ENABLED Next <=> pc # "done"
     /\ pc = "done" => runcalls = 1 /\ solved = problem
     /\ nconstructed > 0 => problem.args[2] = budget

\* A request with a budget that is not positive has been solved.
C9_Witness ==
  /\ pc = "done"
  /\ ~Positive(budget)
  /\ ObjectiveValid /\ HrpropValid /\ MethodValid /\ SecondaryValid
  /\ runcalls = 1
  /\ solved.args[2] = budget

(***************************************************************************)
(* C10.  A standard run and a pareto run never share an output file name:  *)
(* whatever the landscapes, objectives and budgets of the two (landscape   *)
(* names with '_' and 'pareto' in them included), their logfilenames       *)
(* differ and their resultfilenames differ.                                *)
(***************************************************************************)
C10_NoSharedFileName ==
  (pc = "done" /\ prev.variant # "None" /\ prev.variant # solved.variant)
  => /\ prev.logfilename # passed.logfilename
     /\ prev.resultfilename # passed.resultfilename

====
